---- MODULE Spec2Model ----
(***************************************************************************)
(* Zero-trust firewall: URL inspection (app/url_inspector.py), the policy  *)
(* decision (app/policy_engine.py), the audit logger (app/logger.py) and   *)
(* the /fetch handler of the proxy (app/proxy.py).                         *)
(*                                                                         *)
(* Representation.                                                         *)
(*  - A Python str is a sequence of one-character strings, so that len,   *)
(*    count, "in", endswith, startswith, lower and the parsing of urlparse *)
(*    are computed character by character.                                 *)
(*  - A score (heuristic score, probability, risk score, threshold) is an  *)
(*    integer number of thousandths: 0.85 is 850.  The heuristic weights   *)
(*    are multiples of 0.1 and are added in table order; the float sums    *)
(*    differ from the decimal sums by at most one ulp (0.6000000000000001, *)
(*    0.8999999999999999, 0.9000000000000001), and no comparison the code  *)
(*    makes (> 0.3, >= 0.7, >= 0.85, >= ALLOW_THRESHOLD and max() against  *)
(*    values on the thousandths grid, min() against 1.0) separates them.   *)
(*  - The hostname entropy is an integer number of millionths of a bit.    *)
(***************************************************************************)
EXTENDS Integers, Sequences, FiniteSets, Bags, TLC

(***************************************************************************)
(* Bounds of the model.                                                    *)
(***************************************************************************)
\* Number of /fetch requests the threaded server handles concurrently.
NumRequests == 2
\* The capability's probabilities are drawn from k/ProbSteps, k = 0..ProbSteps.
ProbSteps == 4
\* ALLOW_THRESHOLD is drawn from k/ThresholdSteps, k = 0..ThresholdSteps.
ThresholdSteps == 4
\* Risk scores handed to enforce_policy are drawn from k/RiskSteps.
RiskSteps == 20

(***************************************************************************)
(* State.                                                                  *)
(***************************************************************************)
VARIABLES
    MODEL_AVAILABLE,  \* url_inspector.MODEL_AVAILABLE, set once at import
    clf,              \* url_inspector.clf, bound at import when the load succeeds
    ALLOW_THRESHOLD,  \* app.config.ALLOW_THRESHOLD
    req,              \* per request: the HTTP request and the locals of fetch_url / inspect_url
    logfile,          \* the lines of logs/decisions.log, as a bag: no step reads their order
    loaded            \* history: what the load at import ended in

vars == <<MODEL_AVAILABLE, clf, ALLOW_THRESHOLD, req, logfile, loaded>>

(***************************************************************************)
(* str helpers                                                             *)
(***************************************************************************)
Digits == {"0", "1", "2", "3", "4", "5", "6", "7", "8", "9"}

LowerLetters == <<"a", "b", "c", "d", "e", "f", "g", "h", "i", "j", "k", "l", "m",
                  "n", "o", "p", "q", "r", "s", "t", "u", "v", "w", "x", "y", "z">>

UpperLetters == <<"A", "B", "C", "D", "E", "F", "G", "H", "I", "J", "K", "L", "M",
                  "N", "O", "P", "Q", "R", "S", "T", "U", "V", "W", "X", "Y", "Z">>

Range(s) == {s[i] : i \in DOMAIN s}

IsAlpha(c) == c \in Range(LowerLetters) \cup Range(UpperLetters)

\* str.lower() on one character.
LowerChar(c) ==
    IF c \in Range(UpperLetters)
    THEN LowerLetters[CHOOSE i \in DOMAIN UpperLetters : UpperLetters[i] = c]
    ELSE c

\* str.lower()
Lower(s) == [i \in 1..Len(s) |-> LowerChar(s[i])]

\* str.count(c) for a one-character c
Count(s, c) == Cardinality({i \in DOMAIN s : s[i] = c})

\* c in s
Contains(s, c) == \E i \in DOMAIN s : s[i] = c

\* s.endswith(suffix)
EndsWith(s, suffix) ==
    /\ Len(suffix) <= Len(s)
    /\ SubSeq(s, Len(s) - Len(suffix) + 1, Len(s)) = suffix

\* s.startswith(prefix)
StartsWith(s, prefix) ==
    /\ Len(prefix) <= Len(s)
    /\ SubSeq(s, 1, Len(prefix)) = prefix

SetMin(S) == CHOOSE x \in S : \A y \in S : x <= y

\* s.find(c) + 1: the first position of c in s, 0 when c is not in s.
Find(s, c) ==
    IF Contains(s, c) THEN SetMin({i \in DOMAIN s : s[i] = c}) ELSE 0

(***************************************************************************)
(* urllib.parse.urlparse, as far as extract_features reads it: whether it  *)
(* raises ValueError, and the netloc.                                      *)
(***************************************************************************)
SchemeChars == Range(LowerLetters) \cup Range(UpperLetters) \cup Digits \cup {"+", "-", "."}

HexDigits == Digits \cup {"a", "b", "c", "d", "e", "f", "A", "B", "C", "D", "E", "F"}

\* urlsplit: the index of the ':' ending the scheme, 0 when the url has no scheme.
SchemeEnd(url) ==
    LET i == Find(url, ":")
    IN  IF i > 1 /\ IsAlpha(url[1]) /\ \A k \in 1..(i - 1) : url[k] \in SchemeChars
        THEN i
        ELSE 0

AfterScheme(url) == SubSeq(url, SchemeEnd(url) + 1, Len(url))

\* urlsplit + _splitnetloc: the text between a leading '//' and the first of '/?#'.
Netloc(url) ==
    LET rest == AfterScheme(url)
    IN  IF Len(rest) >= 2 /\ rest[1] = "/" /\ rest[2] = "/"
        THEN LET ds == {k \in 3..Len(rest) : rest[k] \in {"/", "?", "#"}}
                 delim == IF ds = {} THEN Len(rest) + 1 ELSE SetMin(ds)
             IN  SubSeq(rest, 3, delim - 1)
        ELSE <<>>

\* re.match(r"^\d+\.\d+\.\d+\.\d+$", s): four runs of digits separated by dots.
DottedQuad(s) ==
    /\ Len(s) > 0
    /\ \A i \in DOMAIN s : s[i] \in Digits \cup {"."}
    /\ Count(s, ".") = 3
    /\ s[1] # "." /\ s[Len(s)] # "."
    /\ \A i \in 1..(Len(s) - 1) : ~(s[i] = "." /\ s[i + 1] = ".")

\* netloc.partition('[')[2].partition(']')[0]
BracketedHost(netloc) ==
    LET a == Find(netloc, "[")
        tail == SubSeq(netloc, a + 1, Len(netloc))
        b == Find(tail, "]")
    IN  IF b = 0 THEN tail ELSE SubSeq(tail, 1, b - 1)

\* _check_bracketed_host passes: an IPvFuture literal, or an address that
\* ipaddress.ip_address accepts and that is not IPv4.  The IPv6 syntax is
\* reduced to: hex digits and colons, between two and seven colons (with a
\* '::' when fewer than seven), groups of at most four digits.
BracketedHostOk(h) ==
    IF Len(h) > 0 /\ h[1] = "v"
    THEN LET d == Find(h, ".")
         IN  /\ d > 2
             /\ d < Len(h)
             /\ \A k \in 2..(d - 1) : h[k] \in HexDigits
    ELSE /\ Len(h) >= 2
         /\ \A i \in DOMAIN h : h[i] \in HexDigits \cup {":"}
         /\ Count(h, ":") \in 2..7
         /\ \/ Count(h, ":") = 7
            \/ \E i \in 1..(Len(h) - 1) : h[i] = ":" /\ h[i + 1] = ":"
         /\ \A i \in 1..(Len(h) - 4) : \E k \in i..(i + 4) : h[k] = ":"
         /\ ~(\E i \in 1..(Len(h) - 2) : h[i] = ":" /\ h[i + 1] = ":" /\ h[i + 2] = ":")

\* urlsplit raises ValueError ("Invalid IPv6 URL", or from _check_bracketed_host).
UrlparseRaises(url) ==
    LET n == Netloc(url)
    IN  \/ Contains(n, "[") /\ ~Contains(n, "]")
        \/ Contains(n, "]") /\ ~Contains(n, "[")
        \/ Contains(n, "[") /\ Contains(n, "]") /\ ~BracketedHostOk(BracketedHost(n))

(***************************************************************************)
(* url_inspector.py                                                        *)
(***************************************************************************)
Str_tk == <<".", "t", "k">>
Str_ml == <<".", "m", "l">>
Str_ga == <<".", "g", "a">>
Str_cf == <<".", "c", "f">>
Str_gq == <<".", "g", "q">>
Str_xyz == <<".", "x", "y", "z">>
Str_top == <<".", "t", "o", "p">>
Str_club == <<".", "c", "l", "u", "b">>
Str_work == <<".", "w", "o", "r", "k">>

SUSPICIOUS_TLDS ==
    {Str_tk, Str_ml, Str_ga, Str_cf, Str_gq, Str_xyz, Str_top, Str_club, Str_work}

\* round(10^6 * math.log2(n)) for n = 1..40
Log2Micro ==
    <<0, 1000000, 1584963, 2000000, 2321928, 2584963, 2807355, 3000000, 3169925,
      3321928, 3459432, 3584963, 3700440, 3807355, 3906891, 4000000, 4087463,
      4169925, 4247928, 4321928, 4392317, 4459432, 4523562, 4584963, 4643856,
      4700440, 4754888, 4807355, 4857981, 4906891, 4954196, 5000000, 5044394,
      5087463, 5129283, 5169925, 5209453, 5247928, 5285402, 5321928>>

\* sum over the characters c of host of count(c) * log2(count(c)): every
\* occurrence of c contributes log2(count(c)) once.
RECURSIVE SumLogCounts(_, _)
SumLogCounts(host, i) ==
    IF i = 0 THEN 0
    ELSE Log2Micro[Count(host, host[i])] + SumLogCounts(host, i - 1)

\* -sum((v/total) * log2(v/total)) = log2(total) - sum(v * log2(v)) / total,
\* in millionths of a bit; 0 for the empty host.
hostname_entropy(host) ==
    IF Len(host) = 0 THEN 0
    ELSE Log2Micro[Len(host)] - (SumLogCounts(host, Len(host)) \div Len(host))

Str_https == <<"h", "t", "t", "p", "s">>

\* The dict extract_features returns when urlparse does not raise.
Features(url) ==
    LET netloc == Netloc(url)
    IN  [length |-> Len(url),
         host_len |-> Len(netloc),
         num_dots |-> Count(netloc, "."),
         num_slashes |-> Count(url, "/"),
         has_ip |-> DottedQuad(netloc),
         contains_at |-> Contains(url, "@"),
         contains_percent |-> Contains(url, "%"),
         entropy |-> hostname_entropy(netloc),
         suspicious_tld |-> \E tld \in SUSPICIOUS_TLDS : EndsWith(netloc, tld),
         has_https |-> StartsWith(Lower(url), Str_https)]

\* extract_features(url): the features, or the ValueError of urlparse, which
\* extract_features does not catch.
extract_features(url) ==
    IF UrlparseRaises(url)
    THEN [raised |-> TRUE]
    ELSE [raised |-> FALSE, features |-> Features(url)]

\* The seven rules of heuristic_score in the order the code tries them.
Fired(f) ==
    <<f.has_ip,
      f.contains_at,
      f.contains_percent,
      f.suspicious_tld,
      f.length > 200,
      f.num_slashes > 10,
      f.entropy > 4200000>>

\* score += ... of each rule, in thousandths
Weights == <<500, 400, 300, 300, 200, 200, 300>>

\* reasons.append(...) of each rule
Fragments ==
    <<"IP address used in hostname",
      "Contains '@' symbol (redirect trick)",
      "Encoded characters (%) in URL",
      "Suspicious TLD (.tk/.ml/etc)",
      "Unusually long URL",
      "Too many subdirectories",
      "High domain entropy (random hostname)">>

SafeReason == "Heuristics indicate safe URL"

\* score after the first i rules
RECURSIVE ScoreAfter(_, _)
ScoreAfter(fired, i) ==
    IF i = 0 THEN 0
    ELSE ScoreAfter(fired, i - 1) + (IF fired[i] THEN Weights[i] ELSE 0)

\* reasons after the first i rules
RECURSIVE ReasonsAfter(_, _)
ReasonsAfter(fired, i) ==
    IF i = 0 THEN <<>>
    ELSE IF fired[i]
         THEN Append(ReasonsAfter(fired, i - 1), Fragments[i])
         ELSE ReasonsAfter(fired, i - 1)

\* sep.join(parts)
RECURSIVE Join(_, _)
Join(parts, sep) ==
    IF Len(parts) = 0 THEN ""
    ELSE IF Len(parts) = 1 THEN parts[1]
    ELSE parts[1] \o sep \o Join(Tail(parts), sep)

\* Fault: the cap on the score left out.
CapScoreNone(score) == score

\* min(1.0, score)
CapScore(score) == IF score > 1000 THEN 1000 ELSE score

\* reasons, with the default reason appended when no rule fired
WithDefault(reasons) == IF reasons = <<>> THEN <<SafeReason>> ELSE reasons

heuristic_score(f) ==
    [score |-> CapScore(ScoreAfter(Fired(f), Len(Weights))),
     reason |-> Join(WithDefault(ReasonsAfter(Fired(f), Len(Weights))), "; ")]

\* The thousandths k/1000 ending in 5 whose double lies above k/1000, so that
\* Python's correctly rounded f"{x:.2f}" and round(x, 2) round them up; the
\* others (0.125, 0.375, 0.625 and 0.875 are exact ties, rounded to even)
\* round down.
TiesRoundedUp ==
    {5, 25, 35, 55, 65, 85, 95, 115, 135, 165, 195, 225, 255, 265, 275, 315, 325,
     335, 375, 385, 395, 405, 445, 455, 465, 505, 515, 525, 535, 545, 555, 635,
     645, 655, 665, 675, 685, 755, 765, 775, 785, 795, 805, 875, 885, 895, 905,
     915, 925, 935}

\* round(x, 2), in hundredths
Round2(x) ==
    (x \div 10) + (IF (x % 10) > 5 \/ ((x % 10) = 5 /\ x \in TiesRoundedUp) THEN 1 ELSE 0)

\* f"{x:.2f}"
Fmt2(x) ==
    LET h == Round2(x)
    IN  ToString(h \div 100) \o "." \o ToString((h % 100) \div 10) \o ToString(h % 10)

\* Fault: > in place of >=.
ShortCircuitStrict(heuristic_risk, available) == heuristic_risk > 700 \/ ~available

\* if heuristic_risk >= 0.7 or not MODEL_AVAILABLE
ShortCircuit(heuristic_risk, available) == heuristic_risk >= 700 \/ ~available

BoolInt(b) == IF b THEN 1 ELSE 0

\* feature_vector[0]
FeatureVector(f) ==
    <<f.length, f.host_len, f.num_dots, f.num_slashes, f.entropy,
      BoolInt(f.contains_at), BoolInt(f.contains_percent), BoolInt(f.suspicious_tld)>>

\* The number of predict_proba calls made so far, by the first n requests.
RECURSIVE CallsUpTo(_)
CallsUpTo(n) == IF n = 0 THEN 0 ELSE req[n].calls + CallsUpTo(n - 1)

\* Fault: a capability that keeps state between calls, every second call
\* answering the complement.
StatefulPredictProba(c, fv) ==
    LET flip == (CallsUpTo(NumRequests) % 2) = 1
        p == IF c.kind = "tld" /\ fv[8] # 1 THEN 1000 - c.p ELSE c.p
    IN  IF c.kind \in {"const", "tld"}
        THEN [ok |-> TRUE, prob |-> IF flip THEN 1000 - p ELSE p]
        ELSE [ok |-> FALSE, prob |-> 0]

\* clf.predict_proba(feature_vector)[0][1].  A loaded classifier is a fixed
\* function of the feature vector: a constant probability ("const"), a
\* probability that depends on the suspicious_tld feature ("tld"), or an
\* object whose predict_proba raises ("raises": a model fitted on another
\* number of features, or an object of another class).
PredictProba(c, fv) ==
    CASE c.kind = "const" -> [ok |-> TRUE, prob |-> c.p]
      [] c.kind = "tld" -> [ok |-> TRUE, prob |-> IF fv[8] = 1 THEN c.p ELSE 1000 - c.p]
      [] OTHER -> [ok |-> FALSE, prob |-> 0]

\* Fault: the model's probability replaces the heuristic score.
CombineModelOnly(prob, heuristic_risk) == prob

\* combined_score = max(prob, heuristic_risk)
Combine(prob, heuristic_risk) == IF prob >= heuristic_risk THEN prob ELSE heuristic_risk

BlendReason(prob, heuristic_risk) ==
    "ML+Heuristic score (ML=" \o Fmt2(prob) \o ", heuristics=" \o Fmt2(heuristic_risk) \o ")"

(***************************************************************************)
(* policy_engine.py                                                        *)
(***************************************************************************)
Str_anonymous == <<"a", "n", "o", "n", "y", "m", "o", "u", "s">>
Str_trusted == <<"t", "r", "u", "s", "t", "e", "d">>
Str_compliant == <<"c", "o", "m", "p", "l", "i", "a", "n", "t">>
Str_unknown == <<"u", "n", "k", "n", "o", "w", "n">>
Str_unverified == <<"u", "n", "v", "e", "r", "i", "f", "i", "e", "d">>

\* Fault: the comparison without lower().
IsAnonymousExact(user) == user = Str_anonymous

\* user.lower() == "anonymous"
IsAnonymous(user) == Lower(user) = Str_anonymous

\* Fault: a denylist in place of the allowlist.
DeviceNotDenied(device) == Lower(device) # Str_unverified

\* device.lower() in ["trusted", "compliant"]
DeviceTrusted(device) == Lower(device) \in {Str_trusted, Str_compliant}

\* Fault: the review cut-off tried before the 0.85 cut-off.
enforce_policy_review_first(user, device, risk_score, threshold) ==
    IF Lower(user) = Str_anonymous
    THEN [decision |-> "BLOCK", reason |-> "Unauthenticated user"]
    ELSE IF Lower(device) \notin {Str_trusted, Str_compliant}
    THEN IF risk_score > 300
         THEN [decision |-> "BLOCK", reason |-> "Unverified device and elevated risk"]
         ELSE [decision |-> "REVIEW", reason |-> "Device not compliant; review required"]
    ELSE IF risk_score >= threshold
    THEN [decision |-> "REVIEW", reason |-> "Medium risk"]
    ELSE IF risk_score >= 850
    THEN [decision |-> "BLOCK", reason |-> "High phishing probability detected"]
    ELSE [decision |-> "ALLOW", reason |-> "Risk low"]

\* policy_engine.py 10-33, with ALLOW_THRESHOLD passed as threshold
enforce_policy(user, device, risk_score, threshold) ==
    IF IsAnonymous(user)
    THEN [decision |-> "BLOCK",
          reason |-> "Unauthenticated user - Zero-Trust requires identity verification"]
    ELSE IF ~DeviceTrusted(device)
    THEN IF risk_score > 300
         THEN [decision |-> "BLOCK", reason |-> "Unverified device and elevated risk"]
         ELSE [decision |-> "REVIEW", reason |-> "Device not compliant; review required"]
    ELSE IF risk_score >= 850
    THEN [decision |-> "BLOCK", reason |-> "High phishing probability detected"]
    ELSE IF risk_score >= threshold
    THEN [decision |-> "REVIEW",
          reason |-> "Medium risk (" \o Fmt2(risk_score) \o ") - manual review needed"]
    ELSE [decision |-> "ALLOW",
          reason |-> "Risk low (" \o Fmt2(risk_score) \o ") - access permitted"]

(***************************************************************************)
(* proxy.py, logger.py: the /fetch handler, one step per statement that    *)
(* reads or writes something another request's handler can see, or that    *)
(* can raise.                                                              *)
(***************************************************************************)
Requests == 1..NumRequests

Verdicts == {"ALLOW", "BLOCK", "REVIEW"}

\* request.headers.get(name, default) / request.args.get(name): an absent
\* header or argument is the empty tuple, a present one a 1-tuple.
HeaderOr(h, default) == IF h = <<>> THEN default ELSE h[1]

\* A request that has not arrived, with the handler's locals unbound.
Blank(http) ==
    [pc |-> "idle", http |-> http,
     user |-> <<>>, device |-> <<>>, url |-> <<>>,
     features |-> <<>>, hscore |-> -1, hreason |-> "",
     calls |-> 0, prob |-> -1, risk |-> -1, reason |-> "",
     decision |-> "", policy_reason |-> "",
     logged |-> 0, log_decision |-> "",
     outbound |-> 0, status |-> 0, exc |-> ""]

NoHttp == [xuser |-> <<>>, xdevice |-> <<>>, url |-> <<>>]

\* An unhandled exception in the view: Flask answers 500.
Abort(q, what) == [q EXCEPT !.pc = "done", !.exc = what, !.status = 500]

\* proxy.py 30-35: read the headers and the url argument; 400 without a url.
Receive(r) ==
    /\ req[r].pc = "idle"
    /\ LET q == req[r]
           url == HeaderOr(q.http.url, <<>>)
           got == [q EXCEPT !.user = HeaderOr(q.http.xuser, Str_anonymous),
                            !.device = HeaderOr(q.http.xdevice, Str_unknown),
                            !.url = url]
       IN  req' = [req EXCEPT ![r] =
                      IF url = <<>>
                      THEN [got EXCEPT !.pc = "done", !.status = 400]
                      ELSE [got EXCEPT !.pc = "inspect"]]
    /\ UNCHANGED <<MODEL_AVAILABLE, clf, ALLOW_THRESHOLD, logfile, loaded>>

\* url_inspector.py 104: features = extract_features(url)
Extract(r) ==
    /\ req[r].pc = "inspect"
    /\ LET o == extract_features(req[r].url)
       IN  req' = [req EXCEPT ![r] =
                      IF o.raised
                      THEN Abort(@, "ValueError")
                      ELSE [@ EXCEPT !.pc = "score", !.features = <<o.features>>]]
    /\ UNCHANGED <<MODEL_AVAILABLE, clf, ALLOW_THRESHOLD, logfile, loaded>>

\* url_inspector.py 107: heuristic_risk, heuristic_reason = heuristic_score(features)
Score(r) ==
    /\ req[r].pc = "score"
    /\ LET h == heuristic_score(req[r].features[1])
       IN  req' = [req EXCEPT ![r] =
                      [@ EXCEPT !.pc = "gate", !.hscore = h.score, !.hreason = h.reason]]
    /\ UNCHANGED <<MODEL_AVAILABLE, clf, ALLOW_THRESHOLD, logfile, loaded>>

\* url_inspector.py 110-111: return the heuristic result, or go on to the model
Gate(r) ==
    /\ req[r].pc = "gate"
    /\ LET q == req[r]
       IN  req' = [req EXCEPT ![r] =
                      IF ShortCircuit(q.hscore, MODEL_AVAILABLE)
                      THEN [q EXCEPT !.pc = "enforce", !.risk = q.hscore,
                                     !.reason = q.hreason]
                      ELSE [q EXCEPT !.pc = "predict"]]
    /\ UNCHANGED <<MODEL_AVAILABLE, clf, ALLOW_THRESHOLD, logfile, loaded>>

\* url_inspector.py 114-130: call the model and combine; the call is not
\* inside a try, so what predict_proba raises leaves inspect_url and fetch_url.
Predict(r) ==
    /\ req[r].pc = "predict"
    /\ LET q == [req[r] EXCEPT !.calls = @ + 1]
           o == PredictProba(clf, FeatureVector(q.features[1]))
       IN  req' = [req EXCEPT ![r] =
                      IF ~o.ok
                      THEN Abort(q, "predict_proba")
                      ELSE [q EXCEPT !.pc = "enforce",
                                     !.prob = o.prob,
                                     !.risk = Combine(o.prob, q.hscore),
                                     !.reason = BlendReason(o.prob, q.hscore)]]
    /\ UNCHANGED <<MODEL_AVAILABLE, clf, ALLOW_THRESHOLD, logfile, loaded>>

\* proxy.py 41: decision, policy_reason = enforce_policy(user, device, risk_score)
Enforce(r) ==
    /\ req[r].pc = "enforce"
    /\ LET d == enforce_policy(req[r].user, req[r].device, req[r].risk, ALLOW_THRESHOLD)
       IN  req' = [req EXCEPT ![r] =
                      [@ EXCEPT !.pc = "log", !.decision = d.decision,
                                !.policy_reason = d.reason]]
    /\ UNCHANGED <<MODEL_AVAILABLE, clf, ALLOW_THRESHOLD, logfile, loaded>>

\* logger.py 18-26: the entry, without its timestamp
LogEntry(q) ==
    [user |-> q.user, url |-> q.url, risk_score |-> Round2(q.risk),
     decision |-> q.decision, inspection_reason |-> q.reason,
     policy_reason |-> q.policy_reason]

\* proxy.py 44, logger.py 16-40: log_decision(...); a failed write is caught
\* and printed, and the handler goes on.
Log(r) ==
    /\ req[r].pc = "log"
    /\ req' = [req EXCEPT ![r] =
                  [@ EXCEPT !.pc = "respond", !.logged = @ + 1,
                            !.log_decision = req[r].decision]]
    /\ \E written \in BOOLEAN :
          logfile' = IF written THEN logfile (+) SetToBag({LogEntry(req[r])}) ELSE logfile
    /\ UNCHANGED <<MODEL_AVAILABLE, clf, ALLOW_THRESHOLD, loaded>>

\* Fault: REVIEW held back like BLOCK.
BlocksOrReview(decision) == decision \in {"BLOCK", "REVIEW"}

\* proxy.py 46: if decision == "BLOCK"
Blocks(decision) == decision = "BLOCK"

\* What requests.get ends in: the upstream's status (one value stands for
\* all of them), or an exception (500).
UpstreamStatuses == {200}

\* proxy.py 46-89: 403 for a blocked request, else one outbound requests.get
\* (outbound counts the calls of requests.get)
Respond(r) ==
    /\ req[r].pc = "respond"
    /\ \E up \in UpstreamStatuses \cup {500} :
          req' = [req EXCEPT ![r] =
                     IF Blocks(@.decision)
                     THEN [@ EXCEPT !.pc = "done", !.status = 403]
                     ELSE [@ EXCEPT !.pc = "done", !.outbound = @ + 1, !.status = up]]
    /\ UNCHANGED <<MODEL_AVAILABLE, clf, ALLOW_THRESHOLD, logfile, loaded>>

(***************************************************************************)
(* Inputs.                                                                 *)
(***************************************************************************)
Str_alice == <<"a", "l", "i", "c", "e">>

Users ==
    {Str_anonymous,
     <<"A", "n", "o", "n", "y", "m", "o", "u", "s">>,
     <<"A", "N", "O", "N", "Y", "M", "O", "U", "S">>,
     <<"a", "n", "o", "n", "y", "m", "o", "u", "s", " ">>,
     Str_alice,
     <<>>}

Devices ==
    {Str_trusted,
     <<"T", "r", "u", "s", "t", "e", "d">>,
     Str_compliant,
     <<"C", "O", "M", "P", "L", "I", "A", "N", "T">>,
     <<"t", "r", "u", "s", "t", "e", "d", " ">>,
     Str_unverified,
     Str_unknown,
     <<>>}

Grid(steps) == {(1000 * k) \div steps : k \in 0..steps}

Near(S) == {x \in UNION {{t - 1, t, t + 1} : t \in S} : x >= 0 /\ x <= 1000}

\* Values of ALLOW_THRESHOLD: a grid over [0, 1] and the 0.5 of the examples.
AllowThresholds == Grid(ThresholdSteps) \cup {500}

\* The value the server and the single calls of inspect_url run with.
ConfiguredThresholds == {500}

\* Risk scores: a grid over [0, 1], the examples, and the neighbours of every cut-off.
Risks ==
    Grid(RiskSteps) \cup {200, 400, 600, 900} \cup Near({300, 850}) \cup Near(AllowThresholds)

\* Probabilities a loaded classifier returns.
Probs == Grid(ProbSteps) \cup {125, 620}

Clfs ==
    {[kind |-> "const", p |-> p] : p \in Probs}
        \cup {[kind |-> "tld", p |-> 900], [kind |-> "raises", p |-> 0]}

\* The name clf is not bound when joblib.load raised.
Unbound == [kind |-> "unbound", p |-> 0]

\* url_inspector.py 12-17: the outcomes of the import-time load.
Loads == {[available |-> FALSE, clf |-> Unbound]}
             \cup {[available |-> TRUE, clf |-> c] : c \in Clfs}

Repeat(c, n) == [i \in 1..n |-> c]

Prefixes ==
    {<<>>,
     <<"/", "/">>,
     <<"h", "t", "t", "p", ":", "/", "/">>,
     <<"H", "T", "T", "P", "S", ":", "/", "/">>}

Hosts ==
    {<<>>,
     <<"a", "b", ".", "c", "o", "m">>,
     <<"a", ".", "t", "k">>,
     <<"1", ".", "1", ".", "1", ".", "1">>,
     <<"u", "@", "a", ".", "x", "y", "z">>,
     <<"a", "b", "c", "d", "e", "f", "g", "h", "i", "j", "k", "l", "m", "n", "o", "p",
       "q", "r", "s", "t">>,
     <<"[">>,
     <<"[", ":", ":", "1", "]">>}

Tails ==
    {<<>>,
     <<"/", "%">>,
     <<"/", "@", "%">>,
     Repeat("/", 10),
     Repeat("/", 11),
     <<"/">> \o Repeat("a", 199),
     <<"/">> \o Repeat("a", 200)}

\* The urls inspect_url is applied to: scheme and slashes, host, rest.
Urls == {p \o h \o t : p \in Prefixes, h \in Hosts, t \in Tails}

\* The feature sets heuristic_score is applied to: every combination of the
\* seven rules, each numeric feature at, just below and just above its cut-off.
FeatureSets ==
    [length : {0, 200, 201}, host_len : {0}, num_dots : {0},
     num_slashes : {0, 10, 11},
     has_ip : BOOLEAN, contains_at : BOOLEAN, contains_percent : BOOLEAN,
     entropy : {0, 4200000, 4200001},
     suspicious_tld : BOOLEAN, has_https : {FALSE}]

U_clean == <<"h", "t", "t", "p", ":", "/", "/", "a", "b", ".", "c", "o", "m">>
U_tk == <<"/", "/", "a", ".", "t", "k">>
U_ip_pct == <<"/", "/", "1", ".", "1", ".", "1", ".", "1", "/", "%">>
U_bracket == <<"h", "t", "t", "p", ":", "/", "/", "[">>

\* The requests the concurrent handlers serve: a clean url from a trusted and
\* from an unknown device, a suspicious TLD without an identity, an IP url
\* with an encoded character, an unbalanced bracket, and no url at all.
HttpRequests ==
    {[xuser |-> <<Str_alice>>, xdevice |-> <<Str_trusted>>, url |-> <<U_clean>>],
     [xuser |-> <<Str_alice>>, xdevice |-> <<>>, url |-> <<U_clean>>],
     [xuser |-> <<>>, xdevice |-> <<>>, url |-> <<U_tk>>],
     [xuser |-> <<Str_alice>>, xdevice |-> <<Str_trusted>>, url |-> <<U_ip_pct>>],
     [xuser |-> <<Str_alice>>, xdevice |-> <<Str_trusted>>, url |-> <<U_bracket>>],
     [xuser |-> <<Str_alice>>, xdevice |-> <<Str_trusted>>, url |-> <<>>]}

\* The loads the concurrent handlers run under.
ServerLoads ==
    {l \in Loads : l.clf.kind \in {"unbound", "tld", "raises"} \/ l.clf.p = 620}

(***************************************************************************)
(* Specifications.                                                         *)
(***************************************************************************)
\* After import: the model is loaded or not, the threshold is configured,
\* the requests q are on their way and the log has no line of this run.
InitWith(loads, thresholds, qs) ==
    /\ loaded \in loads
    /\ MODEL_AVAILABLE = loaded.available
    /\ clf = loaded.clf
    /\ ALLOW_THRESHOLD \in thresholds
    /\ req \in qs
    /\ logfile = EmptyBag

\* The server: NumRequests requests handled by concurrent threads.
Init ==
    InitWith(ServerLoads, ConfiguredThresholds,
             [Requests -> {Blank(h) : h \in HttpRequests}])

Next ==
    \E r \in Requests :
        \/ Receive(r)
        \/ Extract(r)
        \/ Score(r)
        \/ Gate(r)
        \/ Predict(r)
        \/ Enforce(r)
        \/ Log(r)
        \/ Respond(r)

Spec == Init /\ [][Next]_vars

\* Only request 1 is used by the specifications of a single call.
Only(q) == {[r \in Requests |-> IF r = 1 THEN q ELSE Blank(NoHttp)]}

\* inspect_url(url) for every url and every load.
InitInspect ==
    \E u \in Urls :
        InitWith(Loads, ConfiguredThresholds,
                 Only([Blank(NoHttp) EXCEPT !.pc = "inspect", !.url = u]))

NextInspect ==
    \E r \in Requests :
        \/ Extract(r)
        \/ Score(r)
        \/ Gate(r)
        \/ Predict(r)

SpecInspect == InitInspect /\ [][NextInspect]_vars

\* heuristic_score(features) for every feature set.
InitHeur ==
    \E f \in FeatureSets :
        InitWith({[available |-> FALSE, clf |-> Unbound]}, ConfiguredThresholds,
                 Only([Blank(NoHttp) EXCEPT !.pc = "score", !.features = <<f>>]))

NextHeur == \E r \in Requests : Score(r)

SpecHeur == InitHeur /\ [][NextHeur]_vars

\* enforce_policy(user, device, risk_score) for every identity, posture,
\* risk score and threshold.
InitPolicy ==
    \E u \in Users, d \in Devices, x \in Risks :
        InitWith({[available |-> FALSE, clf |-> Unbound]}, AllowThresholds,
                 Only([Blank(NoHttp) EXCEPT !.pc = "enforce", !.user = u,
                                            !.device = d, !.risk = x]))

NextPolicy == \E r \in Requests : Enforce(r)

SpecPolicy == InitPolicy /\ [][NextPolicy]_vars

(***************************************************************************)
(* Properties.                                                             *)
(***************************************************************************)
\* enforce_policy has returned for request q.
Decided(q) == q.decision # ""

\* inspect_url has returned for request q.
Inspected(q) == q.risk # -1

\* C1: for an identity that equals "anonymous" when compared without case,
\* enforce_policy returns BLOCK whatever the device posture and the risk
\* score are; no later rule changes the verdict.
C1_AnonymousBlocked ==
    \A r \in Requests :
        (Decided(req[r]) /\ Lower(req[r].user) = Str_anonymous)
            => req[r].decision = "BLOCK"

\* An upper-case anonymous identity on a trusted device with risk 0 was blocked.
C1_Witness ==
    \E r \in Requests :
        /\ req[r].user = <<"A", "N", "O", "N", "Y", "M", "O", "U", "S">>
        /\ req[r].device = Str_trusted
        /\ req[r].risk = 0
        /\ req[r].decision = "BLOCK"

\* C2: for an identity that is not anonymous and a device posture that is
\* neither "trusted" nor "compliant" (without case), enforce_policy returns
\* BLOCK when risk_score > 0.3 and REVIEW otherwise, hence never ALLOW.
C2_UntrustedNeverAllowed ==
    \A r \in Requests :
        (/\ Decided(req[r])
         /\ Lower(req[r].user) # Str_anonymous
         /\ Lower(req[r].device) \notin {Str_trusted, Str_compliant})
            => /\ req[r].decision = (IF req[r].risk > 300 THEN "BLOCK" ELSE "REVIEW")
               /\ req[r].decision # "ALLOW"

\* An unexpected posture ("trusted " with a trailing blank) at risk 0 was held for review.
C2_Witness ==
    \E r \in Requests :
        /\ req[r].user = Str_alice
        /\ req[r].device = <<"t", "r", "u", "s", "t", "e", "d", " ">>
        /\ req[r].risk = 0
        /\ req[r].decision = "REVIEW"

\* C3: for an identity that is not anonymous on a trusted or compliant
\* device, enforce_policy returns BLOCK when risk_score >= 0.85, else REVIEW
\* when risk_score >= ALLOW_THRESHOLD, else ALLOW, the first match deciding,
\* for every risk score and every threshold in [0, 1]; with a threshold of
\* 0.5, 0.2 gives ALLOW, 0.6 gives REVIEW and 0.9 gives BLOCK.
C3_RiskCascade ==
    \A r \in Requests :
        (/\ Decided(req[r])
         /\ Lower(req[r].user) # Str_anonymous
         /\ Lower(req[r].device) \in {Str_trusted, Str_compliant})
            => /\ req[r].decision =
                      (IF req[r].risk >= 850 THEN "BLOCK"
                       ELSE IF req[r].risk >= ALLOW_THRESHOLD THEN "REVIEW"
                       ELSE "ALLOW")
               /\ (ALLOW_THRESHOLD = 500 /\ req[r].risk = 200) => req[r].decision = "ALLOW"
               /\ (ALLOW_THRESHOLD = 500 /\ req[r].risk = 600) => req[r].decision = "REVIEW"
               /\ (ALLOW_THRESHOLD = 500 /\ req[r].risk = 900) => req[r].decision = "BLOCK"

\* Both cut-offs matched (0.9 >= 0.85 and 0.9 >= 0.5) and the first one decided.
C3_Witness ==
    \E r \in Requests :
        /\ req[r].user = Str_alice
        /\ req[r].device = Str_compliant
        /\ ALLOW_THRESHOLD = 500
        /\ req[r].risk = 900
        /\ req[r].decision = "BLOCK"

\* C4: when the heuristic score is >= 0.7 or no model is available,
\* inspect_url never calls the model and returns the heuristic score and
\* reason unchanged; the model is called only when the heuristic score is
\* below 0.7 and a model is available.
C4_ShortCircuit ==
    \A r \in Requests :
        LET q == req[r]
        IN  /\ (q.hscore # -1 /\ (q.hscore >= 700 \/ ~MODEL_AVAILABLE))
                  => /\ q.calls = 0
                     /\ q.pc # "predict"
                     /\ Inspected(q) => (q.risk = q.hscore /\ q.reason = q.hreason)
            /\ (q.calls > 0 \/ q.pc = "predict")
                  => (q.hscore # -1 /\ q.hscore < 700 /\ MODEL_AVAILABLE)

\* inspect_url returned a heuristic score of exactly 0.7 without calling the
\* model that was loaded.
C4_Witness ==
    \E r \in Requests :
        /\ MODEL_AVAILABLE
        /\ req[r].hscore = 700
        /\ Inspected(req[r])
        /\ req[r].calls = 0

\* C5: on the blended path the final score is max(probability, heuristic
\* score): never below the heuristic score, and within [0, 1].
C5_BlendIsMax ==
    \A r \in Requests :
        LET q == req[r]
        IN  (q.calls > 0 /\ Inspected(q))
                => /\ q.risk \in {q.prob, q.hscore}
                   /\ q.risk >= q.prob
                   /\ q.risk >= q.hscore
                   /\ q.risk >= 0 /\ q.risk <= 1000

\* The model answered below the heuristic score and the heuristic score stood.
C5_Witness ==
    \E r \in Requests :
        /\ req[r].calls > 0
        /\ Inspected(req[r])
        /\ req[r].prob < req[r].hscore
        /\ req[r].risk = req[r].hscore

\* C6: when the model is available and its invocation raises, inspect_url
\* falls back to the heuristic score and reason, and the request still gets
\* a verdict from enforce_policy.
C6_FallbackWhenModelFails ==
    \A r \in Requests :
        LET q == req[r]
        IN  (MODEL_AVAILABLE /\ clf.kind = "raises" /\ q.calls > 0)
                => /\ q.exc = ""
                   /\ q.risk = q.hscore
                   /\ q.reason = q.hreason
                   /\ q.pc = "done" => q.decision \in Verdicts

\* C7: extract_features never raises: every url gets a complete feature set,
\* and every request with a url whose model call does not fail ends with a
\* verdict in {ALLOW, BLOCK, REVIEW}.
C7_ExtractNeverRaises ==
    \A r \in Requests :
        LET q == req[r]
        IN  /\ q.exc # "ValueError"
            /\ (q.pc \notin {"idle", "inspect"} /\ q.url # <<>>) => q.features # <<>>
            /\ (q.pc = "done" /\ q.url # <<>> /\ q.exc # "predict_proba")
                  => q.decision \in Verdicts

\* The sum of the weights of the rules feature set f fires, per the table.
C8_WeightSum(f) ==
    (IF f.has_ip THEN 500 ELSE 0)
        + (IF f.contains_at THEN 400 ELSE 0)
        + (IF f.contains_percent THEN 300 ELSE 0)
        + (IF f.suspicious_tld THEN 300 ELSE 0)
        + (IF f.length > 200 THEN 200 ELSE 0)
        + (IF f.num_slashes > 10 THEN 200 ELSE 0)
        + (IF f.entropy > 4200000 THEN 300 ELSE 0)

\* The fragments of the rules feature set f fires, in table order.
C8_FiredFragments(f) ==
    (IF f.has_ip THEN <<"IP address used in hostname">> ELSE <<>>)
        \o (IF f.contains_at THEN <<"Contains '@' symbol (redirect trick)">> ELSE <<>>)
        \o (IF f.contains_percent THEN <<"Encoded characters (%) in URL">> ELSE <<>>)
        \o (IF f.suspicious_tld THEN <<"Suspicious TLD (.tk/.ml/etc)">> ELSE <<>>)
        \o (IF f.length > 200 THEN <<"Unusually long URL">> ELSE <<>>)
        \o (IF f.num_slashes > 10 THEN <<"Too many subdirectories">> ELSE <<>>)
        \o (IF f.entropy > 4200000 THEN <<"High domain entropy (random hostname)">> ELSE <<>>)

\* Feature set g fires every rule that f fires.
C8_FiresAtLeast(g, f) ==
    /\ f.has_ip => g.has_ip
    /\ f.contains_at => g.contains_at
    /\ f.contains_percent => g.contains_percent
    /\ f.suspicious_tld => g.suspicious_tld
    /\ f.length > 200 => g.length > 200
    /\ f.num_slashes > 10 => g.num_slashes > 10
    /\ f.entropy > 4200000 => g.entropy > 4200000

\* C8: heuristic_score returns min(1.0, sum of the weights of the rules that
\* fired), so the score is within [0, 1] and firing more rules never lowers
\* it; the reason is the fragments of the rules that fired, in table order,
\* joined by "; ", and "Heuristics indicate safe URL" with score 0 when no
\* rule fired; the reason is never empty.
C8_HeuristicScore ==
    \A r \in Requests :
        LET q == req[r]
        IN  q.hscore # -1
                => LET f == q.features[1]
                       sum == C8_WeightSum(f)
                       parts == C8_FiredFragments(f)
                   IN  /\ q.hscore = (IF sum < 1000 THEN sum ELSE 1000)
                       /\ q.hscore >= 0 /\ q.hscore <= 1000
                       /\ \A g \in FeatureSets :
                              C8_FiresAtLeast(g, f) => heuristic_score(g).score >= q.hscore
                       /\ q.hreason # ""
                       /\ parts = <<>> => (q.hscore = 0 /\ q.hreason = "Heuristics indicate safe URL")
                       /\ parts # <<>> => q.hreason = Join(parts, "; ")

\* An IP host with '@' and '%' in the url: the sum of 1.2 was capped to 1.0
\* and the reason lists the three fragments.
C8_Witness ==
    \E r \in Requests :
        /\ req[r].hscore = 1000
        /\ C8_WeightSum(req[r].features[1]) = 1200
        /\ req[r].features[1].has_ip
        /\ Len(C8_FiredFragments(req[r].features[1])) = 3
        /\ req[r].hreason = "IP address used in hostname; Contains '@' symbol (redirect trick); Encoded characters (%) in URL"

\* The urls of the requests the server handles that urlparse accepts.
ServedUrls == {h.url[1] : h \in {g \in HttpRequests : g.url # <<>>}}

\* extract_features and heuristic_score are functions of the url alone:
\* their results for the served urls, computed once.
AloneHeuristics ==
    [u \in {v \in ServedUrls : ~UrlparseRaises(v)} |->
        LET f == extract_features(u).features
        IN  [fv |-> FeatureVector(f), h |-> heuristic_score(f)]]

\* What inspect_url(url) returns when it runs alone under the current load.
InspectAlone(url) ==
    LET a == AloneHeuristics[url]
        p == PredictProba(clf, a.fv)
    IN  IF ShortCircuit(a.h.score, MODEL_AVAILABLE)
        THEN <<a.h.score, a.h.reason>>
        ELSE <<Combine(p.prob, a.h.score), BlendReason(p.prob, a.h.score)>>

\* C9: the result of inspect_url depends only on the url and on what was
\* loaded at import: MODEL_AVAILABLE and clf stay what the load made them,
\* and under every interleaving of the handlers each inspection returns what
\* it returns alone, two inspections of the same url the same.
C9_InspectionsIndependent ==
    /\ MODEL_AVAILABLE = loaded.available
    /\ clf = loaded.clf
    /\ \A r \in Requests :
           Inspected(req[r])
               => <<req[r].risk, req[r].reason>> = InspectAlone(req[r].url)
    /\ \A r1, r2 \in Requests :
           (Inspected(req[r1]) /\ Inspected(req[r2]) /\ req[r1].url = req[r2].url)
               => (req[r1].risk = req[r2].risk /\ req[r1].reason = req[r2].reason)

\* Two requests for the same url both went through the model, the second
\* starting before the first had its response.
C9_Witness ==
    \E r1, r2 \in Requests :
        /\ r1 # r2
        /\ req[r1].url = req[r2].url
        /\ req[r1].calls = 1 /\ req[r2].calls = 1
        /\ req[r1].pc = "enforce" /\ req[r2].pc = "enforce"

\* C10: for a request with a url, the outbound request is issued exactly
\* when the verdict is not BLOCK: BLOCK answers 403 without an outbound
\* request, REVIEW is forwarded like ALLOW; log_decision is called once,
\* with the verdict, before the 403 and before the outbound request.
C10_ForwardUnlessBlocked ==
    \A r \in Requests :
        LET q == req[r]
        IN  /\ q.outbound <= 1 /\ q.logged <= 1
            /\ q.pc = "done" => (q.outbound = 1 <=> q.decision \in {"ALLOW", "REVIEW"})
            /\ q.outbound = 1 => (q.decision \in {"ALLOW", "REVIEW"} /\ q.logged = 1)
            /\ (q.pc = "done" /\ q.decision = "BLOCK")
                  => (q.status = 403 /\ q.outbound = 0 /\ q.logged = 1)
            /\ q.logged = 1 => (q.log_decision = q.decision /\ q.decision \in Verdicts)
            /\ q.pc = "respond" => q.logged = 1

\* A REVIEW verdict was logged and forwarded, a BLOCK verdict logged and answered 403.
C10_Witness ==
    \E r1, r2 \in Requests :
        /\ req[r1].pc = "done" /\ req[r1].decision = "REVIEW"
        /\ req[r1].outbound = 1 /\ req[r1].logged = 1
        /\ req[r2].pc = "done" /\ req[r2].decision = "BLOCK"
        /\ req[r2].outbound = 0 /\ req[r2].status = 403 /\ req[r2].logged = 1

====
